---- MODULE Spec2Model ----
(***************************************************************************)
(* Model of the Gaussian Splat exporter add-on (blender_splat_export.py):  *)
(* the two export operators (side panel and File > Export), their batch    *)
(* loop over the timeline, the per-frame export pipeline and the two       *)
(* samplers.                                                               *)
(*                                                                         *)
(* Conventions:                                                            *)
(*  - indices are 1-based (vertex 1 is Blender's vertex 0);                *)
(*  - a face area is an integer number of 1/AreaUnit square units, so      *)
(*    that floor() in the sample budget is exercised with exact            *)
(*    arithmetic;                                                          *)
(*  - a mesh has nverts vertices, faces is the sequence of its face       *)
(*    areas and polys the sequence of its faces' vertex tuples; its loops  *)
(*    (face corners) are numbered face after face;                         *)
(*  - a length (a distance between points, the scale multiplier) is an    *)
(*    integer number of 1/ScaleDen units and the scale of a sample, a      *)
(*    product of two lengths, an integer number of 1/ScaleDen^2;           *)
(*  - a normal is a triple of integers in units of 1/NormDen, a colour    *)
(*    channel, an alpha and the opacity multiplier are integers in units   *)
(*    of 1/ColorDen, an opacity (a product of two) in 1/ColorDen^2;        *)
(*  - a number written to the script with six fractional digits is the     *)
(*    integer number of millionths it reads as; a value with no exact      *)
(*    rendering in these units (a logarithm, a coordinate, a component of  *)
(*    a rotation) is the record that determines it;                        *)
(*  - outcomes of the host application and of the operating system (bake,  *)
(*    file write, converter exit code) are drawn with \E in the step that  *)
(*    observes them.                                                       *)
(***************************************************************************)
EXTENDS Integers, Sequences, FiniteSets, TLC

\* ---------------------------------------------------------------- bounds
MaxFrame == 3
MaxObjs == 2
MaxVerts == 4
MaxFaces == 3
MaxArea == 3
MaxDensity == 3
AreaUnit == 4
WeightDensity == 16

\* 0.0001, the floor of the scale estimate, is 1/ScaleDen
ScaleDen == 10000

\* 0.999, the tolerance of normal_to_quat, is (NormDen - 1)/NormDen
NormDen == 1000
\* the unit of colours, alphas and the opacity multiplier
ColorDen == 10000
\* "{x:.6f}": six fractional digits
Micro == 1000000

Frames == 1..MaxFrame
AxisNames == {"X", "Y", "Z", "-X", "-Y", "-Z"}

Max(a, b) == IF a >= b THEN a ELSE b

\* ---------------------------------------------------------------- meshes
\* vdist[v] is the distance kd.find_n(vert.co, 2) reports for the second hit
\* of vertex v, fdist[f] the distance kd.find(pos) reports for the points
\* sampled on face f; Mesh(nv, fs) is the mesh of nv vertices and face areas
\* fs whose vertices are one unit apart
\* vnormal[v] is vert.normal, fnormal[f] is face.normal and world_scale the
\* uniform scale of obj.matrix_world (in units of 1/NormDen)
\* no active colour attribute and no material
NoAttribute == [present |-> FALSE, domain |-> "POINT", data |-> <<>>]
NoMaterial ==
  [present |-> FALSE, use_nodes |-> FALSE, principled |-> FALSE,
   base_color |-> <<0, 0, 0, 0>>]

\* color_attribute is the active colour attribute of the evaluated mesh
\* (domain "LOOPS" for a legacy layer, which has no domain), data its RGBA
\* entries; material is obj.active_material, principled whether its node
\* tree has a BSDF_PRINCIPLED node and base_color that node's constant
Mesh(nv, fs) ==
  [nverts |-> nv,
   faces  |-> fs,
   vdist  |-> [v \in 1..nv |-> ScaleDen],
   fdist  |-> [f \in 1..Len(fs) |-> ScaleDen \div 2],
   vnormal |-> [v \in 1..nv |-> <<0, 0, NormDen>>],
   fnormal |-> [f \in 1..Len(fs) |-> <<0, 0, NormDen>>],
   world_scale |-> NormDen,
   polys |-> [f \in 1..Len(fs) |-> <<1, 2, 3>>],
   color_attribute |-> NoAttribute,
   material |-> NoMaterial]

FaceSeqs == UNION {[1..n -> 0..MaxArea] : n \in 0..MaxFaces}

\* every evaluated mesh within the bounds; a face needs three vertices
MeshCatalog ==
  {m \in {Mesh(nv, fs) : nv \in 0..MaxVerts, fs \in FaceSeqs} :
     Len(m.faces) > 0 => m.nverts >= 3}

\* the meshes used when the whole batch flow is explored: a triangle and a
\* triangle whose three vertices coincide (zero area)
FlowMeshes == {Mesh(3, <<2>>), Mesh(3, <<0>>)}

ObjSeqs(meshes, lo, hi) == UNION {[1..n -> meshes] : n \in lo..hi}

\* ---------------------------------------------------------------- vectors
Abs(x) == IF x < 0 THEN -x ELSE x

Cross(a, b) ==
  <<a[2] * b[3] - a[3] * b[2], a[3] * b[1] - a[1] * b[3],
    a[1] * b[2] - a[2] * b[1]>>

Scaled(k, v) == <<k * v[1], k * v[2], k * v[3]>>

Plus(a, b) == <<a[1] + b[1], a[2] + b[2], a[3] + b[3]>>

AxisVec(a) ==
  CASE a = "X" -> <<1, 0, 0>> [] a = "-X" -> <<-1, 0, 0>>
    [] a = "Y" -> <<0, 1, 0>> [] a = "-Y" -> <<0, -1, 0>>
    [] a = "Z" -> <<0, 0, 1>> [] a = "-Z" -> <<0, 0, -1>>

\* the rotation axis_conversion(from_forward='-Y', from_up='Z', to_forward,
\* to_up) applied to v: it takes -Y to the target forward axis, Z to the
\* target up axis and X to their right-handed complement
axis_conversion(to_forward, to_up, v) ==
  LET mz == AxisVec(to_up)
      my == Scaled(-1, AxisVec(to_forward))
      mx == Cross(my, mz)
  IN  Plus(Plus(Scaled(v[1], mx), Scaled(v[2], my)), Scaled(v[3], mz))

\* (axis_matrix @ obj.matrix_world).to_3x3() @ n
world_normal(mesh, n, st) ==
  axis_conversion(st.axis_forward, st.axis_up,
                  <<(n[1] * mesh.world_scale) \div NormDen,
                    (n[2] * mesh.world_scale) \div NormDen,
                    (n[3] * mesh.world_scale) \div NormDen>>)

\* ---------------------------------------------------------------- colours
\* mesh.loops: the corners of every face, in order, each with its index,
\* its vertex and its face
RECURSIVE LoopsFrom(_, _, _)
LoopsFrom(polys, f, acc) ==
  IF f > Len(polys) THEN acc
  ELSE LoopsFrom(polys, f + 1,
         acc \o [j \in 1..Len(polys[f]) |->
                  [index |-> Len(acc) + j, vertex_index |-> polys[f][j],
                   face |-> f]])

Loops(mesh) == LoopsFrom(mesh.polys, 1, <<>>)

RECURSIVE SumChannel(_, _, _)
SumChannel(cols, c, i) ==
  IF i > Len(cols) THEN 0 ELSE cols[i][c] + SumChannel(cols, c, i + 1)

\* avg_color, avg_alpha of the collected entries
Average(cols) ==
  [resolved |-> TRUE,
   color |-> <<SumChannel(cols, 1, 1) \div Len(cols),
               SumChannel(cols, 2, 1) \div Len(cols),
               SumChannel(cols, 3, 1) \div Len(cols)>>,
   alpha |-> SumChannel(cols, 4, 1) \div Len(cols)]

Direct(rgba) ==
  [resolved |-> TRUE, color |-> <<rgba[1], rgba[2], rgba[3]>>,
   alpha |-> rgba[4]]

Unresolved == [resolved |-> FALSE, color |-> <<0, 0, 0>>, alpha |-> 0]

\* the entries a lookup collects: those of the elements whose index lies
\* within the attribute's data ("if index < len(color_attribute.data)")
Collected_AllOrNothing(data, indices) ==
  IF \A k \in 1..Len(indices) : indices[k] <= Len(data)
  THEN [k \in 1..Len(indices) |-> data[indices[k]]]
  ELSE <<>>

Collected(data, indices) ==
  LET InRange(i) == i <= Len(data)
      kept == SelectSeq(indices, InRange)
  IN  [k \in 1..Len(kept) |-> data[kept[k]]]

AverageOf(data, indices) ==
  IF Collected(data, indices) = <<>> THEN Unresolved
  ELSE Average(Collected(data, indices))

LoopIndices(loops) == [k \in 1..Len(loops) |-> loops[k].index]

\* the polygons that contain vertex v, in order
PolysOf(mesh, v) ==
  LET Has(f) == \E j \in 1..Len(mesh.polys[f]) : mesh.polys[f][j] = v
  IN  SelectSeq([f \in 1..Len(mesh.polys) |-> f], Has)

\* the try block of get_vertex_color (lines 1321-1360)
vertex_attribute_color(v, mesh) ==
  LET attr == mesh.color_attribute
      OfVertex(l) == l.vertex_index = v
  IN  CASE attr.domain = "POINT" ->
             IF v <= Len(attr.data) THEN Direct(attr.data[v]) ELSE Unresolved
        [] attr.domain = "CORNER" ->
             AverageOf(attr.data,
                       LoopIndices(SelectSeq(Loops(mesh), OfVertex)))
        [] attr.domain = "FACE" -> AverageOf(attr.data, PolysOf(mesh, v))
        [] OTHER -> Unresolved

\* the try block of get_face_color (lines 1259-1306)
face_attribute_color(f, mesh) ==
  LET attr == mesh.color_attribute
      OfFace(l) == l.face = f
  IN  CASE attr.domain = "POINT" -> AverageOf(attr.data, mesh.polys[f])
        [] attr.domain = "FACE" ->
             IF f <= Len(attr.data) THEN Direct(attr.data[f]) ELSE Unresolved
        [] OTHER ->
             AverageOf(attr.data, LoopIndices(SelectSeq(Loops(mesh), OfFace)))

\* the tail shared by both resolvers: the principled node's constant base
\* colour, else opaque white
material_color(mesh) ==
  IF /\ mesh.material.present /\ mesh.material.use_nodes
     /\ mesh.material.principled
  THEN Direct(mesh.material.base_color)
  ELSE Direct(<<ColorDen, ColorDen, ColorDen, ColorDen>>)

resolve_color_MaterialFirst(attribute_color, mesh, st) ==
  IF /\ mesh.material.present /\ mesh.material.use_nodes
     /\ mesh.material.principled
  THEN Direct(mesh.material.base_color)
  ELSE IF /\ st.use_vertex_colors /\ mesh.color_attribute.present
          /\ attribute_color.resolved
  THEN attribute_color
  ELSE Direct(<<ColorDen, ColorDen, ColorDen, ColorDen>>)

resolve_color(attribute_color, mesh, st) ==
  IF /\ st.use_vertex_colors /\ mesh.color_attribute.present
     /\ attribute_color.resolved
  THEN attribute_color
  ELSE material_color(mesh)

get_vertex_color(v, mesh, st) ==
  resolve_color(vertex_attribute_color(v, mesh), mesh, st)

get_face_color(f, mesh, st) ==
  resolve_color(face_attribute_color(f, mesh), mesh, st)

\* ---------------------------------------------------------------- samplers
\* "... if settings.use_normals else Vector((0, 0, 1))"
sample_normal_AlwaysMesh(mesh, n, st) ==
  world_normal(mesh, n, st)

sample_normal(mesh, n, st) ==
  IF st.use_normals THEN world_normal(mesh, n, st) ELSE <<0, 0, NormDen>>

\* "final_scale = max(final_scale, 0.0001)", on a scale in 1/ScaleDen^2
final_scale_NoFloor(s) == s
final_scale(s) == Max(s, ScaleDen)

\* lines 1137-1148: kd.find_n(vert.co, 2) has a second hit as soon as the
\* mesh has two vertices
vertex_scale(mesh, v, st) ==
  IF st.use_auto_scale
  THEN LET auto_scale == IF mesh.nverts > 1 THEN Max(mesh.vdist[v], 1)
                         ELSE st.splat_scale
       IN  auto_scale * st.splat_scale
  ELSE st.splat_scale * ScaleDen

\* lines 1225-1234: kd.find(pos) always returns a (truthy) tuple
face_scale(mesh, f, st) ==
  IF st.use_auto_scale
  THEN Max(mesh.fdist[f], 1) * st.splat_scale
  ELSE st.splat_scale * ScaleDen

\* sample_vertices: the loop "for vert in mesh.vertices" (one append per pass)
RECURSIVE VertexLoop(_, _, _, _)
VertexLoop(mesh, v, st, samples) ==
  IF v > mesh.nverts THEN samples
  ELSE VertexLoop(mesh, v + 1, st,
         Append(samples,
           [src    |-> v,
            index  |-> Len(samples),
            position |-> [elem |-> "vertex", at |-> v, seed |-> <<>>],
            color  |-> get_vertex_color(v, mesh, st).color,
            normal |-> sample_normal(mesh, mesh.vnormal[v], st),
            scale  |-> final_scale(vertex_scale(mesh, v, st)),
            opacity |-> get_vertex_color(v, mesh, st).alpha
                          * st.splat_opacity]))

sample_vertices_NeedsNeighbour(mesh, st) ==
  [err |-> FALSE, held |-> {},
   samples |-> IF st.use_auto_scale /\ mesh.nverts = 1 THEN <<>>
               ELSE VertexLoop(mesh, 1, st, <<>>)]

sample_vertices(mesh, st) ==
  [err |-> FALSE, held |-> {"to_mesh"} \ {"to_mesh"},
   samples |-> VertexLoop(mesh, 1, st, <<>>)]

RECURSIVE SumAreas(_, _)
SumAreas(faces, i) ==
  IF i > Len(faces) THEN 0 ELSE faces[i] + SumAreas(faces, i + 1)

\* total_area = sum(face.calc_area() for face in bm.faces)
total_area(mesh) == SumAreas(mesh.faces, 1)

\* num_samples = int(total_area * settings.sample_density)
num_samples(area, density) == (area * density) \div AreaUnit

\* face_samples = max(1, int((face_area / total_area) * num_samples))
face_samples_NoFloor(face_area, area, n) == (face_area * n) \div area
face_samples(face_area, area, n) == Max(1, (face_area * n) \div area)

\* A weight is kept exactly, as tenths/10 + root * sqrt(of/1000) with root
\* in {-1, 0, 1}; NonNegative decides its sign by comparing squares.
NonNegative(w) ==
  CASE w.root = 0 -> w.tenths >= 0
    [] w.root = 1 -> w.tenths >= 0 \/ 10 * w.tenths * w.tenths <= w.of
    [] OTHER -> w.tenths >= 0 /\ 10 * w.tenths * w.tenths >= w.of

\* 1 - a - b of two weights over the same square root
Remainder(a, b) ==
  [tenths |-> 10 - a.tenths - b.tenths, root |-> 0 - a.root - b.root,
   of |-> a.of]

\* r1 = math.sqrt(frame_current * 0.001 + len(samples) * 0.1) % 1.0
\* r2 = (len(samples) * 0.7) % 1.0
\* if r1 + r2 > 1: r1 = 1 - r1; r2 = 1 - r2
barycentric_NoReflection(fc, n) ==
  LET x     == fc + 100 * n
      whole == CHOOSE k \in 0..(x \div 1000) :
                 1000 * k * k <= x /\ x < 1000 * (k + 1) * (k + 1)
  IN  [r1 |-> [tenths |-> 0 - 10 * whole, root |-> 1, of |-> x],
       r2 |-> [tenths |-> (7 * n) % 10, root |-> 0, of |-> x]]

barycentric(fc, n) ==
  LET x     == fc + 100 * n
      whole == CHOOSE k \in 0..(x \div 1000) :
                 1000 * k * k <= x /\ x < 1000 * (k + 1) * (k + 1)
      r1    == [tenths |-> 0 - 10 * whole, root |-> 1, of |-> x]
      r2    == [tenths |-> (7 * n) % 10, root |-> 0, of |-> x]
      zero  == [tenths |-> 0, root |-> 0, of |-> x]
  IN  IF ~NonNegative(Remainder(r1, r2))
      THEN [r1 |-> Remainder(r1, zero), r2 |-> Remainder(r2, zero)]
      ELSE [r1 |-> r1, r2 |-> r2]

\* the inner loop "for _ in range(face_samples)" of one face
\* r1 is computed from scene.frame_current and len(samples), r2 from
\* len(samples): the point sampled on a face is kept as the face and the
\* pair that determines the weights
RECURSIVE FaceLoop(_, _, _, _, _, _)
FaceLoop(mesh, f, k, st, fc, samples) ==
  IF k = 0 THEN samples
  ELSE FaceLoop(mesh, f, k - 1, st, fc,
         Append(samples,
           [src    |-> f,
            index  |-> Len(samples),
            position |-> [elem |-> "face", at |-> f,
                          seed |-> <<fc, Len(samples)>>,
                          corners |-> SubSeq(mesh.polys[f], 1, 3),
                          weights |-> barycentric(fc, Len(samples))],
            color  |-> get_face_color(f, mesh, st).color,
            normal |-> sample_normal(mesh, mesh.fnormal[f], st),
            scale  |-> final_scale(face_scale(mesh, f, st)),
            opacity |-> get_face_color(f, mesh, st).alpha
                          * st.splat_opacity]))

\* the outer loop "for face in bm.faces"
RECURSIVE SurfaceLoop(_, _, _, _, _, _, _)
SurfaceLoop(mesh, f, area, n, st, fc, samples) ==
  IF f > Len(mesh.faces) THEN samples
  ELSE SurfaceLoop(mesh, f + 1, area, n, st, fc,
         FaceLoop(mesh, f, face_samples(mesh.faces[f], area, n), st, fc,
                  samples))

\* sample_mesh: face_area / total_area raises ZeroDivisionError in the first
\* pass of the face loop when the total area is 0.0
sample_mesh(mesh, st, fc) ==
  LET area == total_area(mesh)
      n    == num_samples(area, st.sample_density)
  IN  IF Len(mesh.faces) > 0 /\ area = 0
      THEN [err |-> TRUE, held |-> {"to_mesh", "bmesh"}, samples |-> <<>>]
      ELSE [err |-> FALSE,
            held |-> {"to_mesh", "bmesh"} \ {"bmesh", "to_mesh"},
            samples |-> SurfaceLoop(mesh, 1, area, n, st, fc, <<>>)]

\* the dispatch on settings.sampling_mode in export_single_frame
SampleObject(mesh, st, fc) ==
  IF st.sampling_mode = "VERTICES" THEN sample_vertices(mesh, st)
  ELSE sample_mesh(mesh, st, fc)

\* ---------------------------------------------------------------- helpers
\* get_axis_conversion_matrix: bpy_extras.io_utils.axis_conversion raises
\* "can't use up/forward on the same axis" when the last character of the
\* two target axis names is the same; the matrix is represented by the pair
\* of target axes that determines it
AxisLetter(a) == IF a \in {"X", "-X"} THEN "X"
                 ELSE IF a \in {"Y", "-Y"} THEN "Y" ELSE "Z"

get_axis_conversion_matrix_ParallelOnly(st) ==
  [raised |-> st.axis_forward = st.axis_up,
   matrix |-> <<st.axis_forward, st.axis_up>>]

get_axis_conversion_matrix(st) ==
  [raised |-> AxisLetter(st.axis_forward) = AxisLetter(st.axis_up),
   matrix |-> <<st.axis_forward, st.axis_up>>]

\* ---------------------------------------------------------------- paths
\* A path is the sequence of its characters; os.path is posixpath.

\* str.lower(), on the letters a path of the model is made of
lower(p) ==
  [i \in 1..Len(p) |->
     CASE p[i] = "P" -> "p" [] p[i] = "L" -> "l" [] p[i] = "Y" -> "y"
       [] OTHER -> p[i]]

\* str.endswith
endswith(p, suffix) ==
  /\ Len(p) >= Len(suffix)
  /\ SubSeq(p, Len(p) - Len(suffix) + 1, Len(p)) = suffix

\* str.rfind(c) + 1
rfind(p, c) ==
  IF \E i \in 1..Len(p) : p[i] = c
  THEN CHOOSE i \in 1..Len(p) :
         p[i] = c /\ \A j \in (i + 1)..Len(p) : p[j] # c
  ELSE 0

\* os.path.splitext: the last dot of the last component splits the path,
\* unless only dots precede it in that component
splitext(p) ==
  LET sep == rfind(p, "/")
      dot == rfind(p, ".")
  IN  IF dot > sep /\ \E i \in (sep + 1)..(dot - 1) : p[i] # "."
      THEN <<SubSeq(p, 1, dot - 1), SubSeq(p, dot, Len(p))>>
      ELSE <<p, <<>>>>

\* os.path.dirname: the head up to the last separator, without its
\* trailing separators unless it has nothing else
dirname(p) ==
  LET head  == SubSeq(p, 1, rfind(p, "/"))
      names == {i \in 1..Len(head) : head[i] # "/"}
  IN  IF names # {}
      THEN SubSeq(head, 1, CHOOSE i \in names : \A j \in names : j <= i)
      ELSE head

\* os.path.basename
basename(p) == SubSeq(p, rfind(p, "/") + 1, Len(p))

\* os.path.join(a, b)
join(a, b) ==
  IF b # <<>> /\ b[1] = "/" THEN b
  ELSE IF a = <<>> \/ a[Len(a)] = "/" THEN a \o b
  ELSE a \o <<"/">> \o b

\* f"{n:04d}" of a frame number 0 <= n < 10^7: its decimal digits, with
\* leading zeros up to four digits
Format04d(n) ==
  LET digit  == <<"0", "1", "2", "3", "4", "5", "6", "7", "8", "9">>
      seven  == [i \in 1..7 |-> digit[((n \div 10 ^ (7 - i)) % 10) + 1]]
      needed == {i \in 1..4 : i = 4 \/ seven[i] # "0"}
  IN  SubSeq(seven, CHOOSE i \in needed : \A j \in needed : i <= j, 7)

PlyExt == <<".", "p", "l", "y">>
MjsExt == <<".", "m", "j", "s">>

\* bpy.path.abspath("//"): the directory of the .blend file
BlendDir == <<"/", "b", "/">>

\* f"{base_name}_{frame_number:04d}.ply"
FrameName(base_name, f) == base_name \o <<"_">> \o Format04d(f) \o PlyExt

\* the paths of a frame in the file-browser operator: self.filepath is
\* used as it is
ExporterPaths(st, f) ==
  LET filepath   == IF st.use_frame_number
                    THEN FrameName(splitext(st.export_path)[1], f)
                    ELSE st.export_path
      export_dir == dirname(filepath)
      base_name  == splitext(basename(filepath))[1]
  IN  [filepath |-> filepath,
       generator_path |-> join(export_dir, base_name \o MjsExt)]

\* the paths of a frame in the side-panel operator
DirectPaths(st, f) ==
  LET base_path  == IF ~endswith(lower(st.export_path), PlyExt)
                    THEN st.export_path \o PlyExt
                    ELSE st.export_path
      named      == IF st.use_frame_number
                    THEN FrameName(splitext(base_path)[1], f)
                    ELSE base_path
      no_dir     == dirname(named) = <<>>
      export_dir == IF no_dir THEN BlendDir ELSE dirname(named)
      filepath   == IF no_dir THEN join(export_dir, basename(named))
                    ELSE named
      base_name  == splitext(basename(filepath))[1]
  IN  [filepath |-> filepath,
       generator_path |-> join(export_dir, base_name \o MjsExt)]

FramePaths(o, st, f) ==
  IF o = "DIRECT" THEN DirectPaths(st, f) ELSE ExporterPaths(st, f)

\* the validation at the head of execute(); only the side-panel operator
\* checks the export path
ExecuteCheck_NoSelectionTest(o, st, sel) ==
  IF o = "DIRECT" /\ ~st.export_path_set THEN "no_path" ELSE "ok"

ExecuteCheck(o, st, sel) ==
  IF o = "DIRECT" /\ ~st.export_path_set THEN "no_path"
  ELSE IF Len(sel) = 0 THEN "no_selection"
  ELSE "ok"

\* context.scene.frame_set(f): the scene's current frame afterwards
frame_set_Skipped(current, f) == current

frame_set(current, f) == f

\* for frame in range(start_frame, end_frame + 1)
LoopContinues(f, end) == f <= end

\* cmd = [path]; if overwrite_output: cmd.append('-w');
\* cmd.extend([generator_path, filepath])
BuildCmd(st) ==
  <<"splat_transform_path">>
    \o (IF st.overwrite_output THEN <<"-w">> ELSE <<>>)
    \o <<"generator_path", "filepath">>

\* subprocess.run(cmd, shell=True) with cmd a list: on Windows the list is
\* joined into one command line for the shell; on POSIX only cmd[0] is the
\* command string and the other items become arguments of /bin/sh itself,
\* so the converter starts without any argument
ConverterArgv(cmd, os) == IF os = "posix" THEN <<cmd[1]>> ELSE cmd

\* ---------------------------------------------------------------- state
VARIABLES
  op,               \* "DIRECT" (side panel) or "EXPORTER" (File > Export)
  settings,         \* the settings the operator reads
  platform,         \* "posix" or "win32"
  frame_start, frame_end, frame_current,   \* context.scene
  selected,         \* evaluated meshes of the selected mesh objects
  layers,           \* objects whose mesh carries the _temp_bake_ layer
  vcols,            \* per object, mesh.vertex_colors: names and active layer
  held,             \* evaluated mesh copies and bmeshes not yet released
  script,           \* the generator (.mjs) file last written
  runs,             \* converter invocations, in order
  last_report,      \* last self.report(...)
  result,           \* what execute() returned
  pc,               \* position in the operator's code
  frame, original_frame, success_count, fail_count,   \* batch_export_frames
  frame_number, bake_i, temp_vcol_layers, axis_matrix, obj_i, samples,
  all_samples, caught, result_status,                 \* export_single_frame
  exported,         \* frames export_single_frame was called with, in order
  results,          \* what each of those calls returned
  frame_before,     \* scene.frame_current when execute() was called
  vcols_before      \* the colour layers when execute() was called

sceneVars == <<op, settings, platform, frame_start, frame_end, selected,
               frame_before, vcols_before>>
batchVars == <<frame, original_frame, success_count, fail_count>>
frameVars == <<frame_number, bake_i, temp_vcol_layers, axis_matrix, obj_i,
               samples, all_samples, caught, result_status>>
vars == <<sceneVars, frame_current, layers, vcols, held, script, runs, last_report, result,
          pc, batchVars, frameVars, exported, results>>

Ops == {"DIRECT", "EXPORTER"}
Platforms == {"posix", "win32"}
AxisPairs == AxisNames \X AxisNames

\* axis_forward / axis_up defaults of the two operators
DefaultAxis(o) == IF o = "DIRECT" THEN <<"Z", "-Y">> ELSE <<"-Z", "Y">>

\* the export path of the slices that do not vary it
DefaultPath == <<"/", "d", "/", "a", ".", "p", "l", "y">>

SettingsSet(paths, batches, overws, keeps, modes, dens, autos, norms, axes) ==
  {[export_path_set        |-> p,
    export_path            |-> IF p THEN DefaultPath ELSE <<>>,
    use_frame_number       |-> FALSE,
    batch_export_animation |-> b,
    overwrite_output       |-> w,
    keep_mjs_file          |-> k,
    sampling_mode          |-> m,
    sample_density         |-> d,
    use_auto_scale         |-> a,
    use_normals            |-> n,
    splat_scale            |-> ScaleDen,
    splat_opacity          |-> ColorDen,
    use_vertex_colors      |-> TRUE,
    axis_forward           |-> x[1],
    axis_up                |-> x[2]] :
     p \in paths, b \in batches, w \in overws, k \in keeps, m \in modes,
     d \in dens, a \in autos, n \in norms, x \in axes}

NoScript ==
  [state |-> "none", path |-> <<>>, frame |-> 0, count |-> 0,
   content |-> <<>>]
NoSamples == [obj |-> 0, list |-> <<>>]

\* meshes without colour layers
NoVcols == [o \in 1..Len(selected) |-> [names |-> <<>>, active |-> "none"]]

\* temp_name = "_temp_bake_"
temp_name == "_temp_bake_"

\* lines 394-402: the layer named temp_name is taken if there is one and
\* created otherwise, and made the active layer
with_temp_layer(vc) ==
  [names  |-> IF \E i \in 1..Len(vc.names) : vc.names[i] = temp_name
              THEN vc.names ELSE Append(vc.names, temp_name),
   active |-> temp_name]

\* obj.data.vertex_colors.remove(vcol_layer): when the active layer is
\* removed the layer that takes its index, or the last one, becomes active
without_temp_layer(vc) ==
  LET at   == CHOOSE i \in 1..Len(vc.names) : vc.names[i] = temp_name
      rest == SubSeq(vc.names, 1, at - 1)
                \o SubSeq(vc.names, at + 1, Len(vc.names))
  IN  IF \A i \in 1..Len(vc.names) : vc.names[i] # temp_name THEN vc
      ELSE [names  |-> rest,
            active |-> IF vc.active # temp_name THEN vc.active
                       ELSE IF rest = <<>> THEN "none"
                       ELSE IF at <= Len(rest) THEN rest[at]
                       ELSE rest[Len(rest)]]

\* the operator before execute() is called
OperatorIdle ==
  /\ held = {}
  /\ script = NoScript
  /\ runs = <<>>
  /\ last_report = [level |-> "NONE", msg |-> "none", counts |-> <<>>]
  /\ result = "none"
  /\ pc = "idle"
  /\ frame = 0 /\ original_frame = 0 /\ success_count = 0 /\ fail_count = 0
  /\ frame_number = 0 /\ bake_i = 0 /\ temp_vcol_layers = {}
  /\ axis_matrix = <<>> /\ obj_i = 0 /\ samples = NoSamples
  /\ all_samples = <<>> /\ caught = "none" /\ result_status = "none"
  /\ exported = <<>> /\ results = <<>>
  /\ frame_before = frame_current
  /\ vcols_before = vcols

\* everything the operator owns, before execute() is called, on meshes
\* without colour layers
InitLocals ==
  /\ layers = {}
  /\ vcols = NoVcols
  /\ OperatorIdle

\* the path filed by the file browser is never empty
PathSets(o) == IF o = "DIRECT" THEN BOOLEAN ELSE {TRUE}

\* both operators, single-frame and batch mode, every timeline within the
\* bounds, up to MaxObjs selected objects
Init ==
  /\ op \in Ops
  /\ platform = "win32"
  /\ settings \in SettingsSet(PathSets(op), BOOLEAN, {TRUE}, {FALSE},
                              {"VERTICES", "SURFACE"}, {MaxDensity}, {TRUE},
                              {TRUE}, {DefaultAxis(op)})
  /\ frame_start \in Frames /\ frame_end \in Frames /\ frame_current \in Frames
  /\ selected \in ObjSeqs(FlowMeshes, 0, MaxObjs)
  /\ InitLocals

\* ---------------------------------------------------------------- actions
Report(level, msg) == [level |-> level, msg |-> msg, counts |-> <<>>]

\* execute(): validation, then the batch loop or one frame
Execute ==
  /\ pc = "idle"
  /\ LET chk == ExecuteCheck(op, settings, selected) IN
       IF chk # "ok"
       THEN /\ last_report' = Report("ERROR", chk)
            /\ result' = "CANCELLED"
            /\ pc' = "returned"
            /\ UNCHANGED <<batchVars, frame_number>>
       ELSE IF settings.batch_export_animation
       THEN /\ frame' = frame_start
            /\ original_frame' = frame_current
            /\ success_count' = 0
            /\ fail_count' = 0
            /\ last_report' = Report("INFO", "batch_start")
            /\ pc' = "batch_loop"
            /\ UNCHANGED <<result, frame_number>>
       ELSE /\ frame_number' = frame_current
            /\ pc' = "esf_frame_set"
            /\ UNCHANGED <<batchVars, last_report, result>>
  /\ UNCHANGED <<sceneVars, frame_current, layers, vcols, held, script, runs, bake_i,
                 temp_vcol_layers, axis_matrix, obj_i, samples, all_samples,
                 caught, result_status, exported, results>>

\* head of "for frame in range(start_frame, end_frame + 1)"
BatchLoop ==
  /\ pc = "batch_loop"
  /\ IF LoopContinues(frame, frame_end)
     THEN frame_number' = frame /\ pc' = "esf_frame_set"
     ELSE pc' = "batch_restore" /\ UNCHANGED frame_number
  /\ UNCHANGED <<sceneVars, frame_current, layers, vcols, held, script, runs, last_report,
                 result, batchVars, bake_i, temp_vcol_layers, axis_matrix,
                 obj_i, samples, all_samples, caught, result_status, exported,
                 results>>

\* export_single_frame entry: context.scene.frame_set(frame_number)
EsfFrameSet ==
  /\ pc = "esf_frame_set"
  /\ frame_current' = frame_set(frame_current, frame_number)
  /\ exported' = Append(exported, frame_number)
  /\ temp_vcol_layers' = {}
  /\ bake_i' = 1
  /\ axis_matrix' = <<>> /\ obj_i' = 0 /\ samples' = NoSamples
  /\ all_samples' = <<>> /\ caught' = "none" /\ result_status' = "none"
  /\ pc' = "esf_bake"
  /\ UNCHANGED <<sceneVars, layers, vcols, held, script, runs, last_report, result,
                 batchVars, frame_number, results>>

\* one pass of the bake loop, which runs before the try block:
\*   skipped      no node material, or bake_temp_vertex_colors returns None
\*   layer        the temporary layer is created, filled and returned
\*   raise_early  the bake raises before the layer exists
\*   raise_late   the bake raises after the layer was created
BakeOutcomes == {"skipped", "layer", "raise_early", "raise_late"}

EsfBake ==
  /\ pc = "esf_bake"
  /\ IF bake_i > Len(selected)
     THEN /\ pc' = "esf_axis"
          /\ UNCHANGED <<layers, vcols, temp_vcol_layers, bake_i>>
     ELSE \E outcome \in BakeOutcomes :
            /\ layers' = IF outcome \in {"layer", "raise_late"}
                         THEN layers \cup {bake_i} ELSE layers
            /\ vcols' = IF outcome \in {"layer", "raise_late"}
                        THEN [vcols EXCEPT
                                ![bake_i] = with_temp_layer(vcols[bake_i])]
                        ELSE vcols
            /\ temp_vcol_layers' = IF outcome = "layer"
                                   THEN temp_vcol_layers \cup {bake_i}
                                   ELSE temp_vcol_layers
            /\ IF outcome \in {"raise_early", "raise_late"}
               THEN pc' = "raised" /\ UNCHANGED bake_i
               ELSE pc' = "esf_bake" /\ bake_i' = bake_i + 1
  /\ UNCHANGED <<sceneVars, frame_current, held, script, runs, last_report, result,
                 batchVars, frame_number, axis_matrix, obj_i, samples,
                 all_samples, caught, result_status, exported, results>>

\* first statement of the try block: get_axis_conversion_matrix(settings)
EsfAxis ==
  /\ pc = "esf_axis"
  /\ LET r == get_axis_conversion_matrix(settings) IN
       IF r.raised
       THEN /\ caught' = "axis"
            /\ result_status' = "CANCELLED"
            /\ last_report' = Report("ERROR", "export_failed")
            /\ pc' = "esf_finally"
            /\ UNCHANGED <<axis_matrix, obj_i>>
       ELSE /\ axis_matrix' = r.matrix
            /\ obj_i' = 1
            /\ pc' = "esf_sample"
            /\ UNCHANGED <<caught, result_status, last_report>>
  /\ UNCHANGED <<sceneVars, frame_current, layers, vcols, held, script, runs, result,
                 batchVars, frame_number, bake_i, temp_vcol_layers, samples,
                 all_samples, exported, results>>

\* one pass of "for obj in selected_objects" of the try block, or its exit
EsfSample ==
  /\ pc = "esf_sample"
  /\ IF obj_i <= Len(selected)
     THEN LET r == SampleObject(selected[obj_i], settings, frame_current) IN
            /\ held' = held \cup {<<obj_i, kind>> : kind \in r.held}
            /\ IF r.err
               THEN /\ caught' = "sample"
                    /\ result_status' = "CANCELLED"
                    /\ last_report' = Report("ERROR", "export_failed")
                    /\ pc' = "esf_finally"
                    /\ UNCHANGED <<samples, all_samples, obj_i>>
               ELSE /\ samples' = [obj |-> obj_i, list |-> r.samples]
                    /\ all_samples' = all_samples \o r.samples
                    /\ obj_i' = obj_i + 1
                    /\ pc' = "esf_sample"
                    /\ UNCHANGED <<caught, result_status, last_report>>
     ELSE /\ last_report' = Report("INFO", "sampled")
          /\ pc' = "esf_write"
          /\ UNCHANGED <<samples, all_samples, obj_i, caught, result_status,
                         held>>
  /\ UNCHANGED <<sceneVars, frame_current, layers, vcols, script, runs, result,
                 batchVars, frame_number, bake_i, temp_vcol_layers,
                 axis_matrix, exported, results>>

\* create_mesh_generator(generator_path, all_samples): open(path, 'w') and
\* f.write(code) either succeed or raise
WriteOutcomes == {"ok", "open_fails", "write_fails"}

\* normal_to_quat: the identity within the tolerance, else the rotation
\* about up x normal, normalized, by acos(up . normal).  Vector.normalized()
\* leaves a zero vector zero.  The rotation is kept as the cross product and
\* the cosine that determine it.
normal_to_quat_ParallelOnly(normal) ==
  IF normal[3] > NormDen - 1
  THEN [identity |-> TRUE, cross |-> <<0, 0, 0>>, cos |-> NormDen]
  ELSE [identity |-> FALSE,
        cross |-> Cross(<<0, 0, 1>>, normal), cos |-> normal[3]]

normal_to_quat(normal) ==
  IF Abs(normal[3]) > NormDen - 1
  THEN [identity |-> TRUE, cross |-> <<0, 0, 0>>, cos |-> NormDen]
  ELSE [identity |-> FALSE,
        cross |-> Cross(<<0, 0, 1>>, normal), cos |-> normal[3]]

\* component i of the quaternion as written: of [0, 0, 0, 1], or of
\* [axis.x * s, axis.y * s, axis.z * s, cos(half_angle)]
QuatComp(q, i) == [quat |-> q, comp |-> i]

\* "{x:.6f}" of num/den, in millionths, for den a power of ten
Fmt6(num, den) ==
  IF den <= Micro THEN num * (Micro \div den)
  ELSE (num + (den \div Micro) \div 2) \div (den \div Micro)

\* sample_str: the twelve numbers written for one sample
sample_str(sample) ==
  LET quat == normal_to_quat(sample.normal) IN
    <<[pos |-> sample.position, comp |-> "x"],
      [pos |-> sample.position, comp |-> "y"],
      [pos |-> sample.position, comp |-> "z"],
      [log |-> sample.scale],
      Fmt6(sample.color[1], ColorDen), Fmt6(sample.color[2], ColorDen),
      Fmt6(sample.color[3], ColorDen),
      Fmt6(sample.opacity, ColorDen * ColorDen),
      QuatComp(quat, 0), QuatComp(quat, 1), QuatComp(quat, 2),
      QuatComp(quat, 3)>>

\* sample_data: one sample_str per sample, in order
sample_data(smp) == [i \in 1..Len(smp) |-> sample_str(smp[i])]

\* packClr = (c) => (c - 0.5) / SH_C0, of a channel read in millionths: the
\* numerator, over SH_C0
packClr(c) == [minus_half |-> c - Micro \div 2, over |-> "SH_C0"]

\* packOpacity = (opacity) => (opacity <= 0) ? -20 : (opacity >= 1) ? 20
\*                             : -Math.log(1 / opacity - 1)
\* of an opacity read in millionths; the logit is kept as the fraction
\* num/den = (1 - opacity)/opacity = 1/opacity - 1 whose negated logarithm
\* it is
packOpacity_StrictBounds(opacity) ==
  IF opacity < 0 THEN [kind |-> "const", value |-> -20, num |-> 1, den |-> 1]
  ELSE IF opacity > Micro
  THEN [kind |-> "const", value |-> 20, num |-> 1, den |-> 1]
  ELSE [kind |-> "logit", value |-> 0, num |-> Micro - opacity,
        den |-> opacity]

packOpacity(opacity) ==
  IF opacity <= 0 THEN [kind |-> "const", value |-> -20, num |-> 1, den |-> 1]
  ELSE IF opacity >= Micro
  THEN [kind |-> "const", value |-> 20, num |-> 1, den |-> 1]
  ELSE [kind |-> "logit", value |-> 0, num |-> Micro - opacity,
        den |-> opacity]

\* this.columnNames
columnNames ==
  <<"x", "y", "z", "scale_0", "scale_1", "scale_2", "f_dc_0", "f_dc_1",
    "f_dc_2", "opacity", "rot_0", "rot_1", "rot_2", "rot_3">>

\* this.getRow, on the record s = samples[index] of the script
getRow_ScalarFirst(s) ==
  [x |-> s[1], y |-> s[2], z |-> s[3],
   scale_0 |-> s[4], scale_1 |-> s[4], scale_2 |-> s[4],
   f_dc_0 |-> packClr(s[5]), f_dc_1 |-> packClr(s[6]),
   f_dc_2 |-> packClr(s[7]),
   opacity |-> packOpacity(s[8]),
   rot_0 |-> s[12], rot_1 |-> s[9], rot_2 |-> s[10], rot_3 |-> s[11]]

getRow(s) ==
  [x |-> s[1], y |-> s[2], z |-> s[3],
   scale_0 |-> s[4], scale_1 |-> s[4], scale_2 |-> s[4],
   f_dc_0 |-> packClr(s[5]), f_dc_1 |-> packClr(s[6]),
   f_dc_2 |-> packClr(s[7]),
   opacity |-> packOpacity(s[8]),
   rot_0 |-> s[9], rot_1 |-> s[10], rot_2 |-> s[11], rot_3 |-> s[12]]

\* what the call leaves on disk and whether it raised
create_mesh_generator_Swallowed(outcome, path, f, smp, old) ==
  [raised |-> FALSE,
   script |-> IF outcome = "ok"
              THEN [state |-> "complete", path |-> path, frame |-> f,
                    count |-> Len(smp),
                    content |-> sample_data(smp)]
              ELSE IF outcome = "write_fails"
              THEN [state |-> "partial", path |-> path, frame |-> f,
                    count |-> 0, content |-> <<>>]
              ELSE old]

create_mesh_generator(outcome, path, f, smp, old) ==
  [raised |-> outcome # "ok",
   script |-> IF outcome = "ok"
              THEN [state |-> "complete", path |-> path, frame |-> f,
                    count |-> Len(smp),
                    content |-> sample_data(smp)]
              ELSE IF outcome = "write_fails"
              THEN [state |-> "partial", path |-> path, frame |-> f,
                    count |-> 0, content |-> <<>>]
              ELSE old]

EsfWrite ==
  /\ pc = "esf_write"
  /\ \E outcome \in WriteOutcomes :
       LET paths == FramePaths(op, settings, frame_number)
           r == create_mesh_generator(outcome, paths.generator_path,
                                      frame_number, all_samples, script) IN
         /\ script' = r.script
         /\ IF r.raised
            THEN /\ caught' = "write"
                 /\ result_status' = "CANCELLED"
                 /\ last_report' = Report("ERROR", "export_failed")
                 /\ pc' = "esf_finally"
            ELSE /\ pc' = "esf_run"
                 /\ UNCHANGED <<caught, result_status, last_report>>
  /\ UNCHANGED <<sceneVars, frame_current, layers, vcols, held, runs, result, batchVars,
                 frame_number, bake_i, temp_vcol_layers, axis_matrix, obj_i,
                 samples, all_samples, exported, results>>

\* subprocess.run(cmd, ...), the test of its return code and, on success,
\* the removal of the generator file
ExitCodes == {0, 1}

EsfRun ==
  /\ pc = "esf_run"
  /\ \E code \in ExitCodes, removed \in BOOLEAN :
       /\ runs' = Append(runs, [frame  |-> frame_number,
                                argv   |-> ConverterArgv(BuildCmd(settings),
                                                         platform),
                                filepath |->
                                  FramePaths(op, settings,
                                             frame_number).filepath,
                                exit   |-> code,
                                script |-> script])
       /\ IF code # 0
          THEN /\ last_report' = Report("ERROR", "stderr")
               /\ result_status' = "CANCELLED"
               /\ UNCHANGED script
          ELSE /\ script' = IF ~settings.keep_mjs_file /\ removed
                            THEN [script EXCEPT !.state = "removed"]
                            ELSE script
               /\ last_report' = Report("INFO", "exported")
               /\ result_status' = "FINISHED"
       /\ pc' = "esf_finally"
  /\ UNCHANGED <<sceneVars, frame_current, layers, vcols, held, result, batchVars,
                 frame_number, bake_i, temp_vcol_layers, axis_matrix, obj_i,
                 samples, all_samples, caught, exported, results>>

\* the finally block and "return result_status"
EsfFinally ==
  /\ pc = "esf_finally"
  /\ layers' = layers \ temp_vcol_layers
  /\ UNCHANGED held
  /\ vcols' = [o \in 1..Len(selected) |->
                IF o \in temp_vcol_layers THEN without_temp_layer(vcols[o])
                ELSE vcols[o]]
  /\ results' = Append(results, result_status)
  /\ IF settings.batch_export_animation
     THEN pc' = "batch_count" /\ UNCHANGED result
     ELSE pc' = "returned" /\ result' = result_status
  /\ UNCHANGED <<sceneVars, frame_current, script, runs, last_report,
                 batchVars, frameVars, exported>>

\* "if result == {'FINISHED'}: success_count += 1 else: fail_count += 1"
CountResult_FailUncounted(r, s, f) ==
  IF r = "FINISHED" THEN <<s + 1, f>> ELSE <<s, f>>

CountResult(r, s, f) ==
  IF r = "FINISHED" THEN <<s + 1, f>> ELSE <<s, f + 1>>

BatchCount ==
  /\ pc = "batch_count"
  /\ LET c == CountResult(results[Len(results)], success_count, fail_count) IN
       success_count' = c[1] /\ fail_count' = c[2]
  /\ frame' = frame + 1
  /\ pc' = "batch_loop"
  /\ UNCHANGED <<sceneVars, frame_current, layers, vcols, held, script, runs, last_report,
                 result, original_frame, frameVars, exported, results>>

\* the tail of batch_export_frames: the summary report and the return value;
\* the messages are f-strings that interpolate the counters
batch_summary_InfoUnlessAllFailed(s, f) ==
  IF f = 0 \/ s > 0
  THEN [report |-> [level |-> "INFO", msg |-> "batch_complete", counts |-> <<s>>],
        result |-> "FINISHED"]
  ELSE [report |-> [level |-> "WARNING", msg |-> "batch_errors", counts |-> <<s, f>>],
        result |-> "FINISHED"]

batch_summary(s, f) ==
  IF f = 0
  THEN [report |-> [level |-> "INFO", msg |-> "batch_complete", counts |-> <<s>>],
        result |-> "FINISHED"]
  ELSE [report |-> [level |-> "WARNING", msg |-> "batch_errors", counts |-> <<s, f>>],
        result |-> "FINISHED"]

\* after the loop: frame_set(original_frame), the summary report, FINISHED
BatchRestore ==
  /\ pc = "batch_restore"
  /\ frame_current' = frame_set(frame_current, original_frame)
  /\ last_report' = batch_summary(success_count, fail_count).report
  /\ result' = batch_summary(success_count, fail_count).result
  /\ pc' = "returned"
  /\ UNCHANGED <<sceneVars, layers, vcols, held, script, runs, batchVars, frameVars,
                 exported, results>>

Next ==
  \/ Execute
  \/ BatchLoop
  \/ EsfFrameSet
  \/ EsfBake
  \/ EsfAxis
  \/ EsfSample
  \/ EsfWrite
  \/ EsfRun
  \/ EsfFinally
  \/ BatchCount
  \/ BatchRestore

Spec == Init /\ [][Next]_vars

\* both platforms and both values of overwrite_output, on a timeline 1..k
InitRun ==
  /\ op \in Ops
  /\ platform \in Platforms
  /\ settings \in SettingsSet({TRUE}, BOOLEAN, BOOLEAN, {FALSE},
                              {"VERTICES"}, {MaxDensity}, {TRUE}, {TRUE},
                              {DefaultAxis(op)})
  /\ frame_start = 1 /\ frame_end \in Frames /\ frame_current = 1
  /\ selected \in ObjSeqs({Mesh(3, <<2>>)}, 1, MaxObjs)
  /\ InitLocals

SpecRun == InitRun /\ [][Next]_vars

\* the 36 target axis pairs, on a triangle and a timeline 1..k
InitAxis ==
  /\ op \in Ops
  /\ platform = "win32"
  /\ settings \in SettingsSet({TRUE}, BOOLEAN, {TRUE}, {FALSE},
                              {"VERTICES"}, {MaxDensity}, {TRUE}, {TRUE},
                              AxisPairs)
  /\ frame_start = 1 /\ frame_end \in Frames /\ frame_current = 1
  /\ selected \in ObjSeqs({Mesh(3, <<2>>)}, 1, MaxObjs)
  /\ InitLocals

SpecAxis == InitAxis /\ [][Next]_vars

\* the samplers alone: export_single_frame of the File > Export operator has
\* reached the sampling loop of its try block on frame 1, with one selected
\* object drawn from the catalog and every sampler setting
InitSampler ==
  /\ op = "EXPORTER"
  /\ platform = "win32"
  /\ settings \in SettingsSet({TRUE}, {FALSE}, {TRUE}, {FALSE},
                              {"VERTICES", "SURFACE"}, 1..MaxDensity, BOOLEAN,
                              BOOLEAN, {DefaultAxis(op)})
  /\ frame_start = 1 /\ frame_end = 1 /\ frame_current = 1
  /\ selected \in ObjSeqs(MeshCatalog, 1, 1)
  /\ layers = {}
  /\ vcols = NoVcols
  /\ held = {}
  /\ script = NoScript
  /\ runs = <<>>
  /\ last_report = [level |-> "NONE", msg |-> "none", counts |-> <<>>]
  /\ result = "none"
  /\ pc = "esf_sample"
  /\ frame = 0 /\ original_frame = 0 /\ success_count = 0 /\ fail_count = 0
  /\ frame_number = 1 /\ bake_i = 2 /\ temp_vcol_layers = {}
  /\ axis_matrix = DefaultAxis(op) /\ obj_i = 1 /\ samples = NoSamples
  /\ all_samples = <<>> /\ caught = "none" /\ result_status = "none"
  /\ exported = <<1>> /\ results = <<>>
  /\ frame_before = 1
  /\ vcols_before = vcols

NextSampler == EsfSample

SpecSampler == InitSampler /\ [][NextSampler]_vars

\* a single-frame export that has reached the sampling loop of its try block
\* on the current frame: nothing was baked, the axis matrix is built
AtSamplingLoop ==
  /\ layers = {}
  /\ vcols = NoVcols
  /\ held = {}
  /\ script = NoScript
  /\ runs = <<>>
  /\ last_report = [level |-> "NONE", msg |-> "none", counts |-> <<>>]
  /\ result = "none"
  /\ pc = "esf_sample"
  /\ frame = 0 /\ original_frame = 0 /\ success_count = 0 /\ fail_count = 0
  /\ frame_number = frame_current /\ bake_i = Len(selected) + 1
  /\ temp_vcol_layers = {}
  /\ axis_matrix = <<settings.axis_forward, settings.axis_up>>
  /\ obj_i = 1 /\ samples = NoSamples
  /\ all_samples = <<>> /\ caught = "none" /\ result_status = "none"
  /\ exported = <<frame_current>> /\ results = <<>>
  /\ frame_before = frame_current
  /\ vcols_before = vcols

\* the scale estimate: distances to the nearest vertex from 0 (coincident
\* vertices, a sampled point on a vertex) up, multipliers from the
\* property's minimum 0.001 up
Distances == {0, 1, 2 * ScaleDen}
Multipliers == {ScaleDen \div 1000, ScaleDen, 2 * ScaleDen}

ScaleFaces(nv) ==
  IF nv >= 3 THEN {<<>>, <<1>>, <<1, MaxArea>>} ELSE {<<>>}

ScaleMeshesOf(nv, fs) ==
  {[Mesh(nv, fs) EXCEPT !.vdist = vd, !.fdist = fd] :
     vd \in [1..nv -> Distances], fd \in [1..Len(fs) -> Distances]}

ScaleMeshes ==
  UNION {UNION {ScaleMeshesOf(nv, fs) : fs \in ScaleFaces(nv)} :
         nv \in 1..MaxVerts}

InitScale ==
  /\ op \in Ops
  /\ platform = "win32"
  /\ settings \in
       {[s EXCEPT !.splat_scale = m] :
          s \in SettingsSet({TRUE}, {FALSE}, {TRUE}, {FALSE},
                            {"VERTICES", "SURFACE"}, {MaxDensity}, BOOLEAN,
                            {TRUE}, {DefaultAxis(op)}),
          m \in Multipliers}
  /\ frame_start = 1 /\ frame_end = 1 /\ frame_current = 1
  /\ selected \in ObjSeqs(ScaleMeshes, 1, 1)
  /\ AtSamplingLoop

SpecScale == InitScale /\ [][NextSampler]_vars

\* the orientation: unit and zero source normals (a degenerate face has the
\* normal (0,0,0)), objects scaled by 1/2, 1 and 2, every valid axis pair
Normals ==
  {<<0, 0, 0>>, <<0, 0, NormDen>>, <<NormDen, 0, 0>>,
   <<(3 * NormDen) \div 5, 0, (4 * NormDen) \div 5>>,
   <<0, 0, NormDen - 1>>}
WorldScales == {NormDen \div 2, NormDen, 2 * NormDen}
ValidAxisPairs == {x \in AxisPairs : AxisLetter(x[1]) # AxisLetter(x[2])}

QuatMeshesOf(nv, fs) ==
  {[Mesh(nv, fs) EXCEPT !.vnormal = [v \in 1..nv |-> n],
                        !.fnormal = [f \in 1..Len(fs) |-> n],
                        !.world_scale = w] :
     n \in Normals, w \in WorldScales}

QuatMeshes ==
  UNION {UNION {QuatMeshesOf(nv, fs) : fs \in ScaleFaces(nv)} :
         nv \in 1..MaxVerts}

InitQuat ==
  /\ op \in Ops
  /\ platform = "win32"
  /\ settings \in SettingsSet({TRUE}, {FALSE}, {TRUE}, {FALSE},
                              {"VERTICES", "SURFACE"}, {MaxDensity}, {TRUE},
                              BOOLEAN, ValidAxisPairs)
  /\ frame_start = 1 /\ frame_end = 1 /\ frame_current = 1
  /\ selected \in ObjSeqs(QuatMeshes, 1, 1)
  /\ AtSamplingLoop

\* sampling, then the writing of the script
NextRecord == EsfSample \/ EsfWrite

SpecQuat == InitQuat /\ [][NextRecord]_vars

\* the opacity: a per-vertex attribute whose alpha runs from below 0 to
\* above 1 (a float attribute is not clamped), multipliers over [0, 1]
Alphas ==
  {-1, 0, 1, ColorDen \div 2, ColorDen - 1, ColorDen, ColorDen + 1,
   2 * ColorDen}
OpacityMultipliers == {0, 1, ColorDen \div 2, ColorDen - 1, ColorDen}

PackMeshes ==
  {[Mesh(nv, <<>>) EXCEPT
      !.color_attribute =
         [present |-> TRUE, domain |-> "POINT",
          data |-> [v \in 1..nv |-> <<ColorDen, ColorDen, ColorDen, a>>]]] :
     nv \in 1..MaxVerts, a \in Alphas}

InitPack ==
  /\ op \in Ops
  /\ platform = "win32"
  /\ settings \in
       {[s EXCEPT !.splat_opacity = m] :
          s \in SettingsSet({TRUE}, {FALSE}, {TRUE}, {FALSE},
                            {"VERTICES", "SURFACE"}, {MaxDensity}, {TRUE},
                            {TRUE}, {DefaultAxis(op)}),
          m \in OpacityMultipliers}
  /\ frame_start = 1 /\ frame_end = 1 /\ frame_current = 1
  /\ selected \in ObjSeqs(PackMeshes, 1, 1)
  /\ AtSamplingLoop

SpecPack == InitPack /\ [][NextRecord]_vars

\* the colours: a triangle, two triangles with a common edge, a triangle
\* with a loose fourth vertex and a quad; an attribute of every domain whose
\* data covers none, some or all of the domain's elements; a material with
\* or without a node tree and a principled node
Topology(nv, ps) ==
  [Mesh(nv, [f \in 1..Len(ps) |-> 2]) EXCEPT !.polys = ps]

ColorTopologies ==
  {Topology(3, <<<<1, 2, 3>>>>),
   Topology(4, <<<<1, 2, 3>>, <<2, 4, 3>>>>),
   Topology(4, <<<<1, 2, 3>>>>),
   Topology(4, <<<<1, 2, 3, 4>>>>)}

Domains == {"POINT", "CORNER", "FACE", "LOOPS"}

DomainSize(mesh, domain) ==
  CASE domain = "POINT" -> mesh.nverts
    [] domain = "FACE" -> Len(mesh.polys)
    [] OTHER -> Len(Loops(mesh))

Palette ==
  {<<ColorDen \div 5, (2 * ColorDen) \div 5, (3 * ColorDen) \div 5,
     (4 * ColorDen) \div 5>>,
   <<ColorDen, 0, 0, ColorDen \div 2>>}

Attributes(mesh) ==
  {NoAttribute} \cup
  UNION {UNION {{[present |-> TRUE, domain |-> d, data |-> vals] :
                   vals \in [1..n -> Palette]} :
                n \in 0..DomainSize(mesh, d)} :
         d \in Domains}

Materials ==
  {NoMaterial} \cup
  {[present |-> TRUE, use_nodes |-> u, principled |-> u /\ q,
    base_color |-> <<ColorDen \div 2, ColorDen \div 2, ColorDen \div 2,
                     ColorDen \div 4>>] :
     u \in BOOLEAN, q \in BOOLEAN}

ColorMeshes ==
  UNION {{[t EXCEPT !.color_attribute = a, !.material = mat] :
            a \in Attributes(t), mat \in Materials} :
         t \in ColorTopologies}

InitColor ==
  /\ op \in Ops
  /\ platform = "win32"
  /\ settings \in
       {[s EXCEPT !.splat_opacity = m, !.use_vertex_colors = e] :
          s \in SettingsSet({TRUE}, {FALSE}, {TRUE}, {FALSE},
                            {"VERTICES", "SURFACE"}, {MaxDensity}, {TRUE},
                            {TRUE}, {DefaultAxis(op)}),
          m \in {ColorDen \div 2, ColorDen}, e \in BOOLEAN}
  /\ frame_start = 1 /\ frame_end = 1 /\ frame_current = 1
  /\ selected \in ObjSeqs(ColorMeshes, 1, 1)
  /\ AtSamplingLoop

SpecColor == InitColor /\ [][NextSampler]_vars

\* the weights of the surface sampler: a triangle, a quadrilateral and a
\* pair of faces of every area, sampled thinly and densely enough for the
\* square root to pass 1
WeightMeshes ==
  UNION {{[Topology(3, <<<<1, 2, 3>>>>) EXCEPT !.faces = <<a>>],
          [Topology(4, <<<<4, 1, 2, 3>>>>) EXCEPT !.faces = <<a>>],
          [Topology(4, <<<<2, 4, 3>>, <<1, 2, 3, 4>>>>) EXCEPT
             !.faces = <<1, a>>]} : a \in 1..MaxArea}

InitWeights ==
  /\ op \in Ops
  /\ platform = "win32"
  /\ settings \in SettingsSet({TRUE}, {FALSE}, {TRUE}, {FALSE}, {"SURFACE"},
                              {MaxDensity, WeightDensity}, BOOLEAN, {TRUE},
                              {DefaultAxis(op)})
  /\ frame_start = 1 /\ frame_end = 1 /\ frame_current \in Frames
  /\ selected \in ObjSeqs(WeightMeshes, 1, 1)
  /\ AtSamplingLoop

SpecWeights == InitWeights /\ [][NextSampler]_vars

\* the rest of a single-frame export from the sampling loop on, with and
\* without keep_mjs_file
InitKeep ==
  /\ op \in Ops
  /\ platform \in Platforms
  /\ settings \in SettingsSet({TRUE}, {FALSE}, BOOLEAN, BOOLEAN,
                              {"VERTICES", "SURFACE"}, {MaxDensity}, {TRUE},
                              {TRUE}, {DefaultAxis(op)})
  /\ frame_start = 1 /\ frame_end = 1 /\ frame_current \in Frames
  /\ selected \in ObjSeqs(FlowMeshes, 1, MaxObjs)
  /\ AtSamplingLoop

NextFrame == EsfSample \/ EsfWrite \/ EsfRun \/ EsfFinally

SpecKeep == InitKeep /\ [][NextFrame]_vars

\* exports of meshes that have colour layers of their own: none, one, two
\* with either of them active, and one that is named like the temporary one
LayerStates ==
  {[names |-> <<>>, active |-> "none"],
   [names |-> <<"Col">>, active |-> "Col"],
   [names |-> <<"Col", "Light">>, active |-> "Col"],
   [names |-> <<"Col", "Light">>, active |-> "Light"],
   [names |-> <<temp_name, "Col">>, active |-> "Col"]}

InitLayers ==
  /\ op \in Ops
  /\ platform = "win32"
  /\ settings \in SettingsSet({TRUE}, BOOLEAN, {TRUE}, {FALSE}, {"VERTICES"},
                              {MaxDensity}, {TRUE}, {TRUE}, {DefaultAxis(op)})
  /\ frame_start = 1 /\ frame_end = 1 /\ frame_current = 1
  /\ selected \in ObjSeqs({Mesh(3, <<2>>)}, 1, MaxObjs)
  /\ vcols \in [1..Len(selected) -> LayerStates]
  /\ layers = {o \in 1..Len(selected) :
                 \E i \in 1..Len(vcols[o].names) :
                   vcols[o].names[i] = temp_name}
  /\ OperatorIdle

SpecLayers == InitLayers /\ [][Next]_vars

\* the script of a frame: up to MaxObjs selected objects out of a single
\* vertex, a triangle, two coloured triangles with a material and a pair
\* of coincident vertices with horizontal normals
ScriptMeshes ==
  {Mesh(1, <<>>),
   Mesh(3, <<MaxArea>>),
   [Topology(4, <<<<1, 2, 3>>, <<2, 4, 3>>>>) EXCEPT
      !.color_attribute =
         [present |-> TRUE, domain |-> "FACE",
          data |-> <<<<ColorDen, 0, 0, ColorDen \div 2>>,
                     <<0, ColorDen, 0, ColorDen>>>>],
      !.material =
         [present |-> TRUE, use_nodes |-> TRUE, principled |-> TRUE,
          base_color |-> <<0, 0, ColorDen, ColorDen>>]],
   [Mesh(2, <<>>) EXCEPT !.vnormal = [v \in 1..2 |-> <<NormDen, 0, 0>>],
                         !.vdist = [v \in 1..2 |-> 0]]}

InitScript ==
  /\ op \in Ops
  /\ platform = "win32"
  /\ settings \in SettingsSet({TRUE}, {FALSE}, {TRUE}, {FALSE},
                              {"VERTICES", "SURFACE"}, {MaxDensity}, BOOLEAN,
                              BOOLEAN, {DefaultAxis(op)})
  /\ frame_start = 1 /\ frame_end = 1 /\ frame_current \in Frames
  /\ selected \in ObjSeqs(ScriptMeshes, 1, MaxObjs)
  /\ AtSamplingLoop

SpecScript == InitScript /\ [][NextRecord]_vars

\* the triangle (0,0,0), (1,0,0), (0,1,0): vertices one unit from their
\* nearest neighbour, area 0.5, normals (0,0,1), no colour attribute and no
\* material, in an object without transformation
Triangle == Mesh(3, <<AreaUnit \div 2>>)

\* an export of the triangle in vertex mode with scale and opacity
\* multipliers 1.0, by either operator, to every target orientation, using
\* the mesh normals or not
InitTriangle ==
  /\ op \in Ops
  /\ platform = "win32"
  /\ settings \in SettingsSet({TRUE}, {FALSE}, {TRUE}, {FALSE}, {"VERTICES"},
                              {MaxDensity}, BOOLEAN, BOOLEAN, ValidAxisPairs)
  /\ frame_start = 1 /\ frame_end = 1 /\ frame_current \in Frames
  /\ selected = <<Triangle>>
  /\ AtSamplingLoop

SpecTriangle == InitTriangle /\ [][NextRecord]_vars

\* the paths of a frame: export paths with and without the extension, in
\* upper case, with another extension, without a directory, below a
\* directory with a dot in its name, and the bare extension as file name
PathCatalog ==
  {<<"/", "d", "/", "a", ".", "p", "l", "y">>,
   <<"/", "d", "/", "a">>,
   <<"/", "d", "/", "a", ".", "P", "L", "Y">>,
   <<"/", "d", "/", "a", ".", "b">>,
   <<"a", ".", "p", "l", "y">>,
   <<"a">>,
   <<"/", "d", ".", "e", "/", "a">>,
   <<"/", "d", "/", ".", "p", "l", "y">>}

InitPath ==
  /\ op \in Ops
  /\ platform = "posix"
  /\ settings \in
       {[s EXCEPT !.export_path = p, !.use_frame_number = u] :
          s \in SettingsSet({TRUE}, {FALSE}, {TRUE}, {FALSE}, {"VERTICES"},
                            {MaxDensity}, {TRUE}, {TRUE}, {DefaultAxis(op)}),
          p \in PathCatalog, u \in BOOLEAN}
  /\ frame_start = 1 /\ frame_end = 1 /\ frame_current \in Frames
  /\ selected = <<Mesh(1, <<>>)>>
  /\ AtSamplingLoop

NextPath == EsfSample \/ EsfWrite \/ EsfRun

SpecPath == InitPath /\ [][NextPath]_vars

\* a batch export of the whole timeline, with and without the frame number
\* in the file names
InitBatchPath ==
  /\ op \in Ops
  /\ platform = "win32"
  /\ settings \in
       {[s EXCEPT !.export_path = p, !.use_frame_number = u] :
          s \in SettingsSet({TRUE}, {TRUE}, {TRUE}, {FALSE}, {"VERTICES"},
                            {MaxDensity}, {TRUE}, {TRUE}, {DefaultAxis(op)}),
          p \in PathCatalog, u \in BOOLEAN}
  /\ frame_start \in Frames /\ frame_end = MaxFrame /\ frame_current = 1
  /\ selected = <<Mesh(3, <<2>>)>>
  /\ InitLocals

SpecBatchPath == InitBatchPath /\ [][Next]_vars

\* ---------------------------------------------------------------- claims
RangeSeq(a, b) == [i \in 1..Max(0, b - a + 1) |-> a + i - 1]

IsPrefix(s, t) ==
  Len(s) <= Len(t) /\ \A i \in 1..Len(s) : s[i] = t[i]

Count(seq, v) == Cardinality({i \in 1..Len(seq) : seq[i] = v})

FailedRuns == {i \in 1..Len(runs) : runs[i].exit # 0}

BatchMode == settings.batch_export_animation

Rejected == (op = "DIRECT" /\ ~settings.export_path_set) \/ selected = <<>>

\* the batch loop has run to its end
LoopEnded ==
  BatchMode /\ ~Rejected /\ pc \in {"batch_restore", "returned"}

\* the operator has stopped, by a return or by an exception that left it
Ended == pc \in {"returned", "raised"}

\* C1: the batch loop calls export_single_frame for the frames of
\* [frame_start, frame_end] in ascending order, each once; when the loop has
\* ended every frame of the range was exported, success_count + fail_count
\* is the number of frames (0 for an empty range) and success_count is the
\* number of calls that returned FINISHED; for frames 1..3 with exactly one
\* failing converter invocation and no other failure the counts are 2 and 1.
C1_BatchCountsEveryFrame ==
  BatchMode =>
    /\ IsPrefix(exported, RangeSeq(frame_start, frame_end))
    /\ LoopEnded =>
         /\ exported = RangeSeq(frame_start, frame_end)
         /\ Len(results) = Len(exported)
         /\ success_count + fail_count = Max(0, frame_end - frame_start + 1)
         /\ success_count = Count(results, "FINISHED")
         /\ (/\ frame_start = 1 /\ frame_end = 3
             /\ Cardinality(FailedRuns) = 1
             /\ Count(results, "CANCELLED") = 1)
            => (success_count = 2 /\ fail_count = 1)

C1_Witness ==
  /\ BatchMode /\ pc = "returned"
  /\ frame_start = 1 /\ frame_end = 3
  /\ Cardinality(FailedRuns) = 1
  /\ success_count = 2 /\ fail_count = 1

\* C2: in batch export every failure of a frame is caught and counted in
\* fail_count, and the frames after it are still exported: when the operator
\* has stopped, every frame of the range was exported and counted.
C2_EveryFrameFailureCounted ==
  (BatchMode /\ ~Rejected /\ Ended) =>
    /\ pc = "returned"
    /\ exported = RangeSeq(frame_start, frame_end)
    /\ success_count + fail_count = Len(exported)

\* C3: once a batch export has ended, the scene's current frame is the one
\* that was current before the export started.
C3_FrameRestored ==
  (BatchMode /\ Ended) => frame_current = frame_before

\* C4: the converter is only invoked for a frame whose generator script has
\* been written completely, and a frame whose sampling or script writing
\* failed has no converter invocation and the result CANCELLED.
C4_ConverterAfterCompleteScript ==
  /\ \A i \in 1..Len(runs) :
       /\ runs[i].script.state = "complete"
       /\ runs[i].script.frame = runs[i].frame
  /\ caught \in {"sample", "write"} =>
       /\ \A i \in 1..Len(runs) : runs[i].frame # exported[Len(exported)]
       /\ result_status = "CANCELLED"
       /\ pc \notin {"esf_run", "raised"}
       /\ Len(results) = Len(exported) => results[Len(results)] = "CANCELLED"
       /\ (pc = "returned" /\ ~BatchMode) => result = "CANCELLED"

C4_Witness ==
  /\ caught = "write" /\ script.state = "partial"
  /\ Len(runs) = 1 /\ runs[1].exit = 0
  /\ results = <<"FINISHED", "CANCELLED">>

\* C5: the converter process of every frame receives converter_path, the
\* overwrite flag exactly when overwrite_output is set, the script path and
\* the output path, in that order, and the frame's result is FINISHED
\* exactly when the exit code is 0.
C5_ConverterArguments ==
  \A i \in 1..Len(runs) :
    /\ runs[i].argv =
         <<"splat_transform_path">>
           \o (IF settings.overwrite_output THEN <<"-w">> ELSE <<>>)
           \o <<"generator_path", "filepath">>
    /\ \A j \in 1..Len(results) :
         exported[j] = runs[i].frame =>
           (results[j] = "FINISHED" <=> runs[i].exit = 0)

\* C6: with no mesh object selected, or with an empty export path in the
\* side-panel operator, execute returns CANCELLED with an error report and
\* nothing else changes, in single-frame and in batch mode.
C6_RejectedExportChangesNothing ==
  Rejected =>
    /\ pc \in {"idle", "returned"}
    /\ pc = "returned" =>
         (result = "CANCELLED" /\ last_report.level = "ERROR")
    /\ frame_current = frame_before
    /\ exported = <<>>
    /\ layers = {}
    /\ script = NoScript
    /\ runs = <<>>

C6_Witness ==
  /\ selected = <<>> /\ BatchMode /\ pc = "returned"
  /\ result = "CANCELLED" /\ frame_start # frame_current
  /\ frame_start <= frame_end

\* C7: with target forward and up on the same axis (parallel or
\* anti-parallel) every frame's export is CANCELLED, nothing is sampled, no
\* script is written and the converter is not invoked.
Opposite(a) ==
  CASE a = "X" -> "-X" [] a = "-X" -> "X" [] a = "Y" -> "-Y"
    [] a = "-Y" -> "Y" [] a = "Z" -> "-Z" [] a = "-Z" -> "Z"

SameAxis ==
  \/ settings.axis_forward = settings.axis_up
  \/ settings.axis_forward = Opposite(settings.axis_up)

C7_SameAxisRejected ==
  SameAxis =>
    /\ samples = NoSamples /\ all_samples = <<>>
    /\ script = NoScript
    /\ runs = <<>>
    /\ pc \notin {"esf_sample", "esf_write", "esf_run"}
    /\ \A j \in 1..Len(results) : results[j] = "CANCELLED"
    /\ (pc = "returned" /\ ~BatchMode /\ ~Rejected) => result = "CANCELLED"

C7_Witness ==
  /\ settings.axis_forward = Opposite(settings.axis_up)
  /\ ~BatchMode /\ pc = "returned" /\ result = "CANCELLED"
  /\ caught = "axis" /\ exported # <<>>

\* C8: in vertex mode the sampler never fails and returns one sample per
\* vertex of the mesh, in vertex order, whatever the mesh and the settings.
C8_VertexModeOneSamplePerVertex ==
  settings.sampling_mode = "VERTICES" =>
    /\ caught # "sample"
    /\ samples.obj > 0 =>
         LET m == selected[samples.obj] IN
           /\ Len(samples.list) = m.nverts
           /\ \A i \in 1..Len(samples.list) : samples.list[i].src = i

C8_Witness ==
  /\ settings.sampling_mode = "VERTICES" /\ settings.use_auto_scale
  /\ samples.obj = 1 /\ selected[1] = Mesh(1, <<>>)
  /\ Len(samples.list) = 1

\* C9: in surface mode a mesh with total area A > 0 is sampled without
\* error, face f receives exactly max(1, floor(area_f / A * N)) samples with
\* N = floor(A * density), the sample count is at least the number of faces
\* of positive area, and at least N when every face's share is 0.
Share(m, f) ==
  (m.faces[f] * ((SumAreas(m.faces, 1) * settings.sample_density)
                   \div AreaUnit)) \div SumAreas(m.faces, 1)

SamplesOfFace(f) ==
  Cardinality({i \in 1..Len(samples.list) : samples.list[i].src = f})

C9_SurfaceSamplesPerFace ==
  settings.sampling_mode = "SURFACE" =>
    /\ caught = "sample" => SumAreas(selected[obj_i].faces, 1) = 0
    /\ (samples.obj > 0 /\ SumAreas(selected[samples.obj].faces, 1) > 0) =>
         LET m == selected[samples.obj]
             N == (SumAreas(m.faces, 1) * settings.sample_density)
                    \div AreaUnit
         IN  /\ \A f \in 1..Len(m.faces) :
                  SamplesOfFace(f) = Max(1, Share(m, f))
             /\ Len(samples.list) >=
                  Cardinality({f \in 1..Len(m.faces) : m.faces[f] > 0})
             /\ (\A f \in 1..Len(m.faces) : Share(m, f) = 0) =>
                  Len(samples.list) >= N

C9_Witness ==
  /\ settings.sampling_mode = "SURFACE" /\ settings.sample_density = 2
  /\ samples.obj = 1 /\ selected[1] = Mesh(3, <<1, 1, 1>>)
  /\ Len(samples.list) = 3

\* C10: in surface mode a mesh of total area zero (no faces, or only
\* zero-area faces) yields an empty sample list and no error.
C10_ZeroAreaYieldsNoSamples ==
  (/\ settings.sampling_mode = "SURFACE"
   /\ \A o \in 1..Len(selected) : SumAreas(selected[o].faces, 1) = 0) =>
    /\ caught # "sample"
    /\ all_samples = <<>>

\* C11: every sample of either sampler has a scale of at least the floor
\* 0.0001 (ScaleDen in 1/ScaleDen^2), whatever the mesh, the multiplier and
\* the auto-scale setting, so that the logarithm written for it is finite.
C11_ScaleAtLeastFloor ==
  /\ \A i \in 1..Len(all_samples) :
       all_samples[i].scale >= ScaleDen /\ all_samples[i].scale > 0
  /\ \A i \in 1..Len(samples.list) : samples.list[i].scale >= ScaleDen

C11_Witness ==
  /\ settings.use_auto_scale /\ settings.sampling_mode = "VERTICES"
  /\ settings.splat_scale = ScaleDen \div 1000
  /\ selected[1].nverts = 2 /\ selected[1].vdist[1] = 0
  /\ Len(all_samples) = 2
  /\ all_samples[1].scale = ScaleDen

\* the quaternion of a written record; it has length 1 when it is the
\* identity or when its axis, the normalized cross product, is not zero:
\* with a zero axis it is (0, 0, 0, cos(angle/2)) with |cos(angle)| <= 0.999
RotationOf(rec) == rec[9].quat

IsUnit(q) == q.identity \/ q.cross # <<0, 0, 0>>

\* C12: the rotation written for every record is a unit quaternion,
\* whatever the world transform of the mesh and whatever the source normal.
C12_RotationIsUnit ==
  script.state = "complete" =>
    \A i \in 1..Len(script.content) : IsUnit(RotationOf(script.content[i]))

\* a packed opacity is finite and within [-20, 20]: a logit -ln(num/den) is
\* finite when num and den are positive, and within the range when
\* e^-20 <= num/den <= e^20 (e^20 = 485165195.4...)
PackedInRange(p) ==
  IF p.kind = "const" THEN p.value >= -20 /\ p.value <= 20
  ELSE /\ p.num > 0 /\ p.den > 0
       /\ p.num \div p.den <= 485165195
       /\ p.den \div p.num <= 485165195

\* C13: the packed opacity of every record of the script is exactly -20 for
\* a stored opacity <= 0, exactly 20 for a stored opacity >= 1 and
\* -ln(1/opacity - 1) otherwise, and it is finite and within [-20, 20] for
\* every opacity written with six fractional digits.
C13_OpacityPacking ==
  script.state = "complete" =>
    \A i \in 1..Len(script.content) :
      LET stored == script.content[i][8]
          packed == getRow(script.content[i]).opacity
      IN  /\ stored <= 0 => (packed.kind = "const" /\ packed.value = -20)
          /\ stored >= Micro => (packed.kind = "const" /\ packed.value = 20)
          /\ (stored > 0 /\ stored < Micro) =>
                /\ packed.kind = "logit"
                /\ packed.num = Micro - stored /\ packed.den = stored
          /\ PackedInRange(packed)

C13_Witness ==
  /\ script.state = "complete" /\ Len(script.content) = 1
  /\ all_samples[1].opacity = 1
  /\ script.content[1][8] = 0
  /\ getRow(script.content[1]).opacity.value = -20

\* the elements of the attribute that belong to the sample's vertex or
\* face: the vertex itself, the corners that reference it or the faces
\* around it; the face itself, its corners or its vertices.  A layer
\* without a domain is looked up by the corners of a face only.
ElementsOf(m, mode, e) ==
  LET d == m.color_attribute.domain
      corners == {l \in 1..Len(Loops(m)) :
                    IF mode = "VERTICES" THEN Loops(m)[l].vertex_index = e
                    ELSE Loops(m)[l].face = e}
  IN  IF mode = "VERTICES"
      THEN CASE d = "POINT" -> {e}
             [] d = "CORNER" -> corners
             [] d = "FACE" -> {f \in 1..Len(m.polys) :
                                \E j \in 1..Len(m.polys[f]) :
                                  m.polys[f][j] = e}
             [] OTHER -> {}
      ELSE CASE d = "POINT" -> {m.polys[e][j] : j \in 1..Len(m.polys[e])}
             [] d = "FACE" -> {e}
             [] OTHER -> corners

InRangeOf(m, mode, e) ==
  {i \in ElementsOf(m, mode, e) : i <= Len(m.color_attribute.data)}

RECURSIVE SetSum(_, _, _)
SetSum(data, c, S) ==
  IF S = {} THEN 0
  ELSE LET i == CHOOSE i \in S : TRUE
       IN  data[i][c] + SetSum(data, c, S \ {i})

\* colour and alpha of the average of the entries S
MeanOf(data, S) ==
  <<SetSum(data, 1, S) \div Cardinality(S),
    SetSum(data, 2, S) \div Cardinality(S),
    SetSum(data, 3, S) \div Cardinality(S),
    SetSum(data, 4, S) \div Cardinality(S)>>

HasColor(smp, rgba) ==
  /\ smp.color = <<rgba[1], rgba[2], rgba[3]>>
  /\ smp.opacity = rgba[4] * settings.splat_opacity

Fallback(m) ==
  IF m.material.present /\ m.material.use_nodes /\ m.material.principled
  THEN m.material.base_color
  ELSE <<ColorDen, ColorDen, ColorDen, ColorDen>>

AttributeEnabled(m) ==
  settings.use_vertex_colors /\ m.color_attribute.present

\* C14: the colour of a sample comes from the first source that resolves:
\* the colour attribute when it is present, enabled and an element of the
\* sample lies within its data; else the constant base colour and alpha of
\* the material's principled node; else opaque white with alpha 1.
C14_ColorResolutionOrder ==
  samples.obj > 0 =>
    \A i \in 1..Len(samples.list) :
      LET m == selected[samples.obj]
          S == InRangeOf(m, settings.sampling_mode, samples.list[i].src)
      IN  IF AttributeEnabled(m) /\ S # {}
          THEN HasColor(samples.list[i], MeanOf(m.color_attribute.data, S))
          ELSE HasColor(samples.list[i], Fallback(m))

C14_Witness ==
  /\ samples.obj = 1 /\ settings.sampling_mode = "VERTICES"
  /\ AttributeEnabled(selected[1])
  /\ selected[1].color_attribute.domain = "CORNER"
  /\ selected[1].material.principled
  /\ selected[1].nverts = 4 /\ Len(selected[1].polys) = 1
  /\ Len(selected[1].color_attribute.data) = 3
  /\ samples.list[1].color # samples.list[4].color
  /\ samples.list[4].color =
       <<ColorDen \div 2, ColorDen \div 2, ColorDen \div 2>>

\* C15: an element beyond the attribute's data is skipped alone: the sample
\* is still produced, without error, with the average of the elements
\* within the data, or with the material's or the white fallback when there
\* is none, for the corner, point and face domains in both modes.
OutOfRange(m, mode, e) ==
  \E i \in ElementsOf(m, mode, e) : i > Len(m.color_attribute.data)

C15_OutOfRangeElementSkipped ==
  (/\ AttributeEnabled(selected[1])
   /\ selected[1].color_attribute.domain \in {"CORNER", "POINT", "FACE"}) =>
    /\ caught # "sample"
    /\ samples.obj > 0 =>
         LET m == selected[samples.obj]
             mode == settings.sampling_mode
         IN  /\ mode = "VERTICES" => Len(samples.list) = m.nverts
             /\ mode = "SURFACE" => Len(samples.list) >= Len(m.polys)
             /\ \A i \in 1..Len(samples.list) :
                  LET e == samples.list[i].src IN
                    OutOfRange(m, mode, e) =>
                      IF InRangeOf(m, mode, e) # {}
                      THEN HasColor(samples.list[i],
                                    MeanOf(m.color_attribute.data,
                                           InRangeOf(m, mode, e)))
                      ELSE HasColor(samples.list[i], Fallback(m))

C15_Witness ==
  /\ samples.obj = 1 /\ settings.sampling_mode = "SURFACE"
  /\ AttributeEnabled(selected[1])
  /\ selected[1].color_attribute.domain = "CORNER"
  /\ Len(selected[1].polys) = 2
  /\ Len(selected[1].color_attribute.data) = 4
  /\ \E i \in 1..Len(samples.list) :
       /\ samples.list[i].src = 2
       /\ HasColor(samples.list[i], selected[1].color_attribute.data[4])
       /\ samples.list[i].color # samples.list[1].color

\* C16: when the enabled colour attribute holds the same value (r,g,b,a) on
\* every element of its domain, every sample of both modes has the colour
\* (r,g,b) and the opacity a times the opacity multiplier.
Uniform(m) ==
  /\ AttributeEnabled(m)
  /\ Len(m.color_attribute.data) = DomainSize(m, m.color_attribute.domain)
  /\ Len(m.color_attribute.data) > 0
  /\ \A i \in 1..Len(m.color_attribute.data) :
       m.color_attribute.data[i] = m.color_attribute.data[1]

C16_UniformAttributeColor ==
  (samples.obj > 0 /\ Uniform(selected[samples.obj])) =>
    \A i \in 1..Len(samples.list) :
      HasColor(samples.list[i], selected[samples.obj].color_attribute.data[1])

\* the number of samples of a mesh: its vertices, or max(1, share) per face
RECURSIVE FaceCounts(_, _)
FaceCounts(m, f) ==
  IF f > Len(m.faces) THEN 0 ELSE Max(1, Share(m, f)) + FaceCounts(m, f + 1)

CountOf(m) ==
  IF settings.sampling_mode = "VERTICES" THEN m.nverts ELSE FaceCounts(m, 1)

\* the number of samples of the selected meshes before mesh o
RECURSIVE StartOf(_)
StartOf(o) == IF o = 1 THEN 0 ELSE StartOf(o - 1) + CountOf(selected[o - 1])

\* sample i of the frame belongs to mesh o and is its k-th sample
Owner(i) ==
  CHOOSE o \in 1..Len(selected) :
    StartOf(o) < i /\ i <= StartOf(o) + CountOf(selected[o])

\* the frame's script has been written from the samples still in all_samples
ScriptWritten == pc = "esf_run" /\ script.state = "complete"

\* C17: the script of a frame declares as its count the number of samples
\* of all selected meshes, holds one record per sample in sampling order
\* with the meshes in selection order, and getRow fills the 14 fields of
\* the manifest for record i from sample i, the three scale channels with
\* the same logarithm of the sample's scale.
C17_ScriptRecords ==
  ScriptWritten =>
    /\ script.count = StartOf(Len(selected) + 1)
    /\ Len(script.content) = script.count
    /\ Len(all_samples) = script.count
    /\ \A i \in 1..Len(script.content) :
         LET smp == all_samples[i]
             row == getRow(script.content[i])
             m   == selected[Owner(i)]
             k   == i - StartOf(Owner(i))
         IN  /\ DOMAIN row = {columnNames[c] : c \in 1..Len(columnNames)}
             /\ Len(columnNames) = 14
             /\ smp.index = k - 1
             /\ settings.sampling_mode = "VERTICES" =>
                  (smp.src = k /\ smp.position.elem = "vertex"
                   /\ smp.normal = sample_normal(m, m.vnormal[k], settings))
             /\ settings.sampling_mode = "SURFACE" =>
                  (smp.src \in 1..Len(m.faces) /\ smp.position.elem = "face"
                   /\ smp.normal =
                        sample_normal(m, m.fnormal[smp.src], settings))
             /\ row.x = [pos |-> smp.position, comp |-> "x"]
             /\ row.y = [pos |-> smp.position, comp |-> "y"]
             /\ row.z = [pos |-> smp.position, comp |-> "z"]
             /\ row.scale_0 = [log |-> smp.scale]
             /\ row.scale_1 = row.scale_0 /\ row.scale_2 = row.scale_0
             /\ row.f_dc_0.minus_half =
                  smp.color[1] * (Micro \div ColorDen) - Micro \div 2
             /\ row.f_dc_1.minus_half =
                  smp.color[2] * (Micro \div ColorDen) - Micro \div 2
             /\ row.f_dc_2.minus_half =
                  smp.color[3] * (Micro \div ColorDen) - Micro \div 2
             /\ row.opacity =
                  packOpacity((smp.opacity + 50) \div 100)
             /\ \A c \in 0..3 :
                  LET r == CASE c = 0 -> row.rot_0 [] c = 1 -> row.rot_1
                             [] c = 2 -> row.rot_2 [] OTHER -> row.rot_3
                  IN  r.comp = c /\ r.quat = normal_to_quat(smp.normal)

C17_Witness ==
  /\ ScriptWritten /\ Len(selected) = 2
  /\ settings.sampling_mode = "SURFACE"
  /\ selected[1] = Mesh(3, <<MaxArea>>) /\ selected[2].nverts = 4
  /\ script.count = StartOf(2) + 2 /\ script.count > 2
  /\ getRow(script.content[script.count]).f_dc_1.minus_half = Micro \div 2

\* the base path with a .ply extension, appended unless it is there
WithPly(base) ==
  IF endswith(lower(base), PlyExt) THEN base ELSE base \o PlyExt

\* the frame number, zero-padded to 4 digits, inserted before the extension
Numbered(p, f) ==
  SubSeq(p, 1, Len(p) - 4) \o <<"_">> \o Format04d(f)
    \o SubSeq(p, Len(p) - 3, Len(p))

OutputName(f) ==
  IF settings.use_frame_number
  THEN Numbered(WithPly(settings.export_path), f)
  ELSE WithPly(settings.export_path)

\* the same path up to the case of its letters, a bare file name being
\* looked up in the directory of the .blend file as well
SamePath(p, q) == lower(p) = lower(q) \/ lower(p) = lower(join(BlendDir, q))

\* the directory and base name of the output path, with the extension .mjs
ScriptName(p) ==
  LET name == basename(p)
      dot  == rfind(name, ".")
      stem == IF dot > 1 THEN SubSeq(name, 1, dot - 1) ELSE name
  IN  join(dirname(p), stem \o MjsExt)

\* C18: the output path of a frame is the base path with a .ply extension,
\* appended when the base path does not end in .ply; with use_frame_number
\* the frame number, zero-padded to 4 digits, is inserted before the
\* extension; the script path is the output path's directory and base name
\* with the extension .mjs.
C18_OutputPathNaming ==
  /\ \A i \in 1..Len(runs) :
       SamePath(runs[i].filepath, OutputName(runs[i].frame))
  /\ script.state = "complete" =>
       /\ SamePath(FramePaths(op, settings, script.frame).filepath,
                   OutputName(script.frame))
       /\ script.path =
            ScriptName(FramePaths(op, settings, script.frame).filepath)

\* record i of the script has the rotation (0, 0, 0, 1)
IdentityRotation(i) ==
  LET row == getRow(script.content[i]) IN
    /\ row.rot_0.comp = 0 /\ row.rot_1.comp = 1
    /\ row.rot_2.comp = 2 /\ row.rot_3.comp = 3
    /\ \A r \in {row.rot_0, row.rot_1, row.rot_2, row.rot_3} :
         r.quat.identity

\* the three colour channels of record i pack to (1 - 0.5)/SH_C0 and its
\* opacity packs to 20
WhiteAndOpaque(i) ==
  LET row  == getRow(script.content[i])
      half == [minus_half |-> Micro - Micro \div 2, over |-> "SH_C0"]
  IN  /\ row.f_dc_0 = half /\ row.f_dc_1 = half /\ row.f_dc_2 = half
      /\ row.opacity.kind = "const" /\ row.opacity.value = 20

\* every setting the scenario does not name is at the operator's default
OtherSettingsDefault ==
  /\ <<settings.axis_forward, settings.axis_up>> = DefaultAxis(op)
  /\ settings.use_normals /\ settings.use_auto_scale
  /\ settings.use_vertex_colors

\* C19 as stated: the triangle exported in vertex mode with every other
\* setting at its default yields exactly 3 records, each with rotation
\* (0,0,0,1), colour channels packing to (1-0.5)/SH_C0 and opacity packing
\* to 20.
C19_TriangleDefaults ==
  (ScriptWritten /\ OtherSettingsDefault) =>
    /\ script.count = 3 /\ Len(script.content) = 3
    /\ \A i \in 1..Len(script.content) :
         IdentityRotation(i) /\ WhiteAndOpaque(i)

\* C19, amended: the triangle yields exactly 3 records, each white and
\* opaque, whatever the orientation; the rotation of each is (0,0,0,1)
\* exactly when the target up axis is Z or -Z or the mesh normals are not
\* used, which excludes the default orientations of both operators.
C19_TriangleScenario ==
  ScriptWritten =>
    /\ script.count = 3 /\ Len(script.content) = 3
    /\ \A i \in 1..Len(script.content) :
         /\ WhiteAndOpaque(i)
         /\ IdentityRotation(i) <=>
              (AxisLetter(settings.axis_up) = "Z" \/ ~settings.use_normals)

C19_Witness ==
  /\ ScriptWritten /\ script.count = 3
  /\ settings.axis_forward = "-Y" /\ settings.axis_up = "Z"
  /\ settings.use_normals /\ settings.use_auto_scale
  /\ \A i \in 1..3 : IdentityRotation(i) /\ WhiteAndOpaque(i)

\* the samples of frame f: those of every selected mesh, sampled on frame f
\* with the settings of the export, in selection order
RECURSIVE FrameSamples(_, _)
FrameSamples(o, f) ==
  IF o = 0 THEN <<>>
  ELSE FrameSamples(o - 1, f) \o SampleObject(selected[o], settings, f).samples

\* C20: the script written for frame f depends on the scene, the settings
\* and f alone: in a batch export, whatever frames were exported before,
\* and in a single-frame export of frame f it holds the records of the
\* samples of frame f and nothing else, so that two exports of the same
\* input write the same script.
C20_FrameIndependence ==
  script.state \in {"complete", "removed"} =>
    /\ script.content = sample_data(FrameSamples(Len(selected), script.frame))
    /\ script.count = Len(script.content)
    /\ script.path = FramePaths(op, settings, script.frame).generator_path

C20_Witness ==
  /\ settings.batch_export_animation
  /\ settings.sampling_mode = "SURFACE"
  /\ Len(exported) = 2 /\ exported[1] = 1 /\ exported[2] = 2
  /\ frame_before = 1 /\ Len(selected) = 2
  /\ script.state = "complete" /\ script.frame = 2
  /\ script.count >= 2
  /\ script.content[1][1].pos.seed = <<2, 0>>

\* C21: for every running sample index and every frame, the weights (r1, r2)
\* the surface sampler uses after the reflection step satisfy r1 >= 0,
\* r2 >= 0 and r1 + r2 <= 1, and the position is interpolated over the first
\* three vertices of the face only.
C21_WeightsInsideTriangle ==
  (settings.sampling_mode = "SURFACE" /\ samples.obj > 0) =>
    \A i \in 1..Len(samples.list) :
      LET smp == samples.list[i]
          w   == smp.position.weights
          ply == selected[samples.obj].polys[smp.src]
      IN  /\ smp.position.seed = <<frame_current, i - 1>>
          /\ NonNegative(w.r1) /\ NonNegative(w.r2)
          /\ NonNegative(Remainder(w.r1, w.r2))
          /\ smp.position.corners = <<ply[1], ply[2], ply[3]>>

\* a face of four vertices has been sampled, some weights were reflected
\* and the square root has passed 1
C21_Witness ==
  /\ settings.sampling_mode = "SURFACE" /\ samples.obj > 0
  /\ \E i \in 1..Len(samples.list) :
       /\ samples.list[i].position.weights.r1.root = 0 - 1
       /\ Len(selected[samples.obj].polys[samples.list[i].src]) = 4
  /\ \E i \in 1..Len(samples.list) :
       samples.list[i].position.weights.r1.tenths = 0 - 10

\* max(floor, max(floor, d) * m), or max(floor, m) without auto-scale, in
\* 1/ScaleDen^2 for d and m in 1/ScaleDen
ClaimedScale(d) ==
  IF settings.use_auto_scale
  THEN Max(ScaleDen, Max(1, d) * settings.splat_scale)
  ELSE Max(ScaleDen, settings.splat_scale * ScaleDen)

\* C22: the scale of every sample is max(floor, max(floor, d) * m) with
\* auto-scale, d being the distance to the second-nearest vertex of the
\* sample's vertex (vertex mode) or to the nearest vertex of the sampled
\* point (surface mode), and max(floor, m) without; for every mesh, the
\* mesh of a single vertex included.
C22_ScaleFormula ==
  samples.obj > 0 =>
    \A i \in 1..Len(samples.list) :
      LET smp  == samples.list[i]
          mesh == selected[samples.obj]
      IN  smp.scale =
            ClaimedScale(IF settings.sampling_mode = "VERTICES"
                         THEN mesh.vdist[smp.src] ELSE mesh.fdist[smp.src])

\* the normal of sample i as the sampler computed it
NormalOf(i) ==
  LET smp  == all_samples[i]
      mesh == selected[Owner(i)]
      n    == IF settings.sampling_mode = "VERTICES"
              THEN mesh.vnormal[smp.src] ELSE mesh.fnormal[smp.src]
  IN  IF settings.use_normals
      THEN axis_conversion(settings.axis_forward, settings.axis_up,
                           <<(n[1] * mesh.world_scale) \div NormDen,
                             (n[2] * mesh.world_scale) \div NormDen,
                             (n[3] * mesh.world_scale) \div NormDen>>)
      ELSE <<0, 0, NormDen>>

\* C23: the rotation of a record is the identity (0,0,0,1) exactly when the
\* absolute dot product of the sample's normal with +Z exceeds 0.999, and
\* otherwise the half-angle quaternion about Z x normal whose angle has the
\* cosine Z . normal; with the normals disabled every record of either
\* sampling mode has the identity, for every axis pair and world transform.
C23_IdentityWithinTolerance ==
  ScriptWritten =>
    \A i \in 1..Len(script.content) :
      LET q == RotationOf(script.content[i])
          n == NormalOf(i)
      IN  /\ q.identity <=> (n[3] > NormDen - 1 \/ n[3] < 1 - NormDen)
          /\ ~q.identity =>
               /\ q.cross = <<0 - n[2], n[1], 0>>
               /\ q.cos = n[3]
          /\ ~settings.use_normals => q.identity

\* normals disabled, on a mesh whose normals lie along X in an object scaled
\* by 2, exported with the up axis on Y
C23_Witness ==
  /\ ScriptWritten /\ ~settings.use_normals
  /\ settings.axis_up = "Y" /\ selected[1].world_scale = 2 * NormDen
  /\ selected[1].vnormal[1] = <<NormDen, 0, 0>>
  /\ Len(script.content) > 0
  /\ \A i \in 1..Len(script.content) : RotationOf(script.content[i]).identity

\* control is inside export_single_frame
InFrame ==
  pc \in {"esf_frame_set", "esf_bake", "esf_axis", "esf_sample", "esf_write",
          "esf_run", "esf_finally"}

\* C24: every temporary bake layer created for a frame is removed by the
\* time export_single_frame ends, on every outcome: success, converter
\* failure, an error while sampling or writing, and an error raised while
\* baking a later object of the frame.
C24_BakeLayersRemoved ==
  ~InFrame => layers = {}

\* C25: once export_single_frame has returned, the script written for the
\* frame no longer exists when keep_mjs_file is disabled, whether the result
\* is FINISHED or CANCELLED, and is left in place when it is enabled.
C25_ScriptRemovedUnlessKept ==
  (pc = "returned" /\ script.state # "none") =>
    IF settings.keep_mjs_file
    THEN script.state \in {"complete", "partial"}
    ELSE script.state = "removed"

\* C26: in a batch export two different frames never write the same output
\* path nor the same script path, whatever use_frame_number is.
C26_DistinctPathsPerFrame ==
  \A i, j \in 1..Len(runs) :
    runs[i].frame # runs[j].frame =>
      /\ runs[i].filepath # runs[j].filepath
      /\ runs[i].script.path # runs[j].script.path

\* C27: after export_single_frame has returned every selected mesh has the
\* colour layers and the active layer it had before: only the temporary
\* layer was added and removed, a layer named _temp_bake_ that existed
\* before is kept, and the active layer is restored.
C27_ColorLayersRestored ==
  (~InFrame /\ pc # "idle") => vcols = vcols_before

\* C28: every sampler call has released the evaluated mesh copy, and in
\* surface mode the bmesh, when control leaves it, on normal return and
\* when sampling raises.
C28_SamplerReleases ==
  held = {}

\* C29: whenever batch_export_frames returns, for every frame range (the
\* empty one included) and every combination of per-frame results (all of
\* them failures included), the result is FINISHED; the summary is a warning
\* carrying success_count and fail_count exactly when fail_count > 0, and an
\* info message carrying success_count otherwise.
C29_BatchAlwaysFinished ==
  (LoopEnded /\ pc = "returned") =>
    /\ result = "FINISHED"
    /\ (last_report.level = "WARNING") = (fail_count > 0)
    /\ (last_report.level = "INFO") = (fail_count = 0)
    /\ last_report.counts =
         IF fail_count > 0 THEN <<success_count, fail_count>> ELSE <<success_count>>
    /\ success_count = Count(results, "FINISHED")
    /\ fail_count = Len(results) - success_count

\* a batch in which every frame failed has returned FINISHED with a warning
C29_Witness ==
  /\ LoopEnded /\ pc = "returned"
  /\ Len(results) >= 2 /\ success_count = 0
  /\ result = "FINISHED" /\ last_report.level = "WARNING"

====
